---- MODULE Spec2Model ----
(***************************************************************************)
(* Model of the work-code management micro-frontend                        *)
(* (src/SharedComponets/src/types.ts): the SecurityValidator helpers and   *)
(* the WorkCodeService search filter and record validation, the           *)
(* WorkCodeApiClient and the WorkCodeManagement component's dialogs, the   *)
(* rate limiter, and the host's EventBus and SharedStateProvider           *)
(* (src/host/host/src/styled.ts, backupApp.tsx).                           *)
(*                                                                         *)
(* JavaScript strings are sequences of one-character strings; JavaScript   *)
(* values are tagged records, so that null, undefined, numbers (also       *)
(* non-integers) and strings stay distinct.  The strings of a              *)
(* sanitizeInput call are held in the state run-length packed (a run       *)
(* [c |-> "x", k |-> 998] is 998 times "x"); sanitizeInput itself works on *)
(* the characters.                                                         *)
(***************************************************************************)
EXTENDS Integers, Sequences, FiniteSets, TLC

VARIABLES
    fn,             \* the function under call
    pc,             \* "call": arguments bound; "done": returned; "again": re-applied
    input,          \* the JavaScript value passed (string to sanitize, value, status, query)
    maxLength,      \* validateWorkCodeInput's maxLength
    workCodes,      \* filterWorkCodes' list of records
    visibleFields,  \* filterWorkCodes' list of field names
    ret,            \* the value returned
    ret2,           \* sanitizeInput applied to its own result
    thrown,         \* the message of the error a call threw ("" when it returned)
    formData,       \* the candidate record (the dialog's form)
    pageConfig,     \* the field configuration, in Object.entries order
    \* the component WorkCodeManagement
    editingCode,    \* the record under edit, or JSNull
    isDialogOpen,
    isSubmitting,
    isLoading,
    error,          \* the error state: a message, or "" for null
    alerts,         \* the text the last step showed by alert(): <<>> or <<text>>
    call,           \* the network calls in flight: the getAll, the create/update
                    \* and the delete
    sent,           \* the POST and PUT requests sent, in order
    edits,          \* handleInputChange calls made
    outcome,        \* how the last step ended a submission or a call ("" if it did not)
    deleteDialogOpen,
    deletingId,     \* the identifier awaiting confirmation, or JSNull
    deleted,        \* the identifiers of the DELETE requests sent, in order
    \* SecurityValidator's rate limiter
    requestTimestamps, \* the static list of the accepted calls' times
    now,            \* Date.now()
    rateLimit,      \* the maxRequests and windowMs every call is made with
    calls,          \* the calls made: time, caller and result, in order
    \* the host's EventBus
    events,         \* per event the array of callbacks
    subs,           \* the subscriptions made: event, callback, and whether its
                    \* unsubscribe function has been called
    iter,           \* the publish in progress: the array forEach walks
    delivered,      \* the callbacks the last publish invoked, with the data
    \* the host's SharedStateProvider
    sharedState,    \* the state of the last render
    queue,          \* the state updates React holds until the next render
    published,      \* the events the last handler published
    added           \* addNotification calls made

callVars == <<fn, pc, input, maxLength, visibleFields, ret, ret2, thrown>>
uiVars == <<editingCode, isDialogOpen, isSubmitting, isLoading, error, alerts,
            call, sent, edits, outcome>>
delVars == <<deleteDialogOpen, deletingId, deleted>>
hostVars == <<requestTimestamps, now, rateLimit, calls,
              events, subs, iter, delivered,
              sharedState, queue, published, added>>
vars == <<callVars, workCodes, formData, pageConfig, uiVars, delVars, hostVars>>

----------------------------------------------------------------------------
(* Bounds of the model.                                                    *)

MaxHeadLen == 1
MaxTailLen == 2
MaxValueLen == 3
MaxRecords == 2
MaxEdits == 2
MaxSent == 1
MaxCalls == 4
MaxWindows == 2
MaxSubs == 3
MaxAdded == 6

(* Program constants.                                                      *)

SanitizeMaxLen == 1000
MaxCodeLen == 10
MaxLongCodeLen == 50
DefaultMaxRequests == 10
DefaultWindowMs == 60000
MaxNotifications == 5

----------------------------------------------------------------------------
(* JavaScript values.                                                      *)

JSString(s) == [t |-> "string", s |-> s, n |-> 0, d |-> 1]
\* the number n/d
JSNumber(n, d) == [t |-> "number", s |-> <<>>, n |-> n, d |-> d]
JSNull == [t |-> "null", s |-> <<>>, n |-> 0, d |-> 1]
JSUndefined == [t |-> "undefined", s |-> <<>>, n |-> 0, d |-> 1]

\* !v
Falsy(v) ==
    \/ v.t \in {"null", "undefined"}
    \/ v.t = "string" /\ v.s = <<>>
    \/ v.t = "number" /\ v.n = 0

Range(f) == {f[i] : i \in DOMAIN f}
Min(a, b) == IF a <= b THEN a ELSE b

LowerLetters ==
    <<"a", "b", "c", "d", "e", "f", "g", "h", "i", "j", "k", "l", "m",
      "n", "o", "p", "q", "r", "s", "t", "u", "v", "w", "x", "y", "z">>
UpperLetters ==
    <<"A", "B", "C", "D", "E", "F", "G", "H", "I", "J", "K", "L", "M",
      "N", "O", "P", "Q", "R", "S", "T", "U", "V", "W", "X", "Y", "Z">>
Digits == <<"0", "1", "2", "3", "4", "5", "6", "7", "8", "9">>

\* the characters String.prototype.trim removes and the regular expression \s matches
WhiteSpace == {" ", "\t", "\n", "\r", "\f"}

\* String.prototype.replace(/[<>]/g, '')
replaceAngle(s) == SelectSeq(s, LAMBDA c : c \notin {"<", ">"})

RECURSIVE skipLeft(_, _)
skipLeft(s, i) ==
    IF i > Len(s) \/ s[i] \notin WhiteSpace THEN i ELSE skipLeft(s, i + 1)

RECURSIVE skipRight(_, _)
skipRight(s, i) ==
    IF i < 1 \/ s[i] \notin WhiteSpace THEN i ELSE skipRight(s, i - 1)

\* String.prototype.trim
trim(s) == SubSeq(s, skipLeft(s, 1), skipRight(s, Len(s)))

\* String.prototype.substring(0, end)
substring(s, end) == SubSeq(s, 1, Min(Len(s), end))

toLowerChar(c) ==
    IF \E i \in 1..Len(UpperLetters) : UpperLetters[i] = c
    THEN LowerLetters[CHOOSE i \in 1..Len(UpperLetters) : UpperLetters[i] = c]
    ELSE c

\* String.prototype.toLowerCase
toLowerCase(s) == [i \in 1..Len(s) |-> toLowerChar(s[i])]

\* String.prototype.startsWith
includes_StartsWith(hay, needle) ==
    /\ Len(needle) <= Len(hay)
    /\ SubSeq(hay, 1, Len(needle)) = needle

\* String.prototype.includes
includes(hay, needle) ==
    \E i \in 0..(Len(hay) - Len(needle)) :
        SubSeq(hay, i + 1, i + Len(needle)) = needle

RECURSIVE NatToString(_)
NatToString(n) ==
    IF n < 10 THEN <<Digits[n + 1]>>
    ELSE NatToString(n \div 10) \o <<Digits[(n % 10) + 1]>>

\* String(value)
JSToString(v) ==
    CASE v.t = "string" -> v.s
      [] v.t = "null" -> <<"n", "u", "l", "l">>
      [] v.t = "undefined" -> <<"u", "n", "d", "e", "f", "i", "n", "e", "d">>
      [] v.t = "number" ->
            LET a == IF v.n < 0 THEN 0 - v.n ELSE v.n
                sign == IF v.n < 0 THEN <<"-">> ELSE <<>>
            IN IF a % v.d = 0
               THEN sign \o NatToString(a \div v.d)
               ELSE sign \o NatToString(a \div v.d) \o <<".", "5">>

\* the runs of equal characters of s, in order
Pack(s) ==
    LET starts == {i \in 1..Len(s) : i = 1 \/ s[i] # s[i - 1]}
        endOf(i) == IF \E j \in starts : j > i
                    THEN (CHOOSE j \in starts :
                             j > i /\ \A m \in starts : m > i => j <= m) - 1
                    ELSE Len(s)
        startAt(r) == CHOOSE i \in starts : Cardinality({j \in starts : j < i}) = r - 1
    IN [r \in 1..Cardinality(starts) |->
           [c |-> s[startAt(r)], k |-> endOf(startAt(r)) - startAt(r) + 1]]

RECURSIVE Unpack(_)
Unpack(runs) ==
    IF runs = <<>> THEN <<>>
    ELSE [i \in 1..runs[1].k |-> runs[1].c] \o Unpack(Tail(runs))

PackValue(v) == IF v.t = "string" THEN JSString(Pack(v.s)) ELSE v
UnpackValue(v) == IF v.t = "string" THEN JSString(Unpack(v.s)) ELSE v

----------------------------------------------------------------------------
(* SecurityValidator                                                       *)

sanitizeInput_NoLimit(v) ==
    IF Falsy(v) THEN <<>> ELSE trim(replaceAngle(v.s))

sanitizeInput(v) ==
    IF Falsy(v) THEN <<>>
    ELSE substring(trim(replaceAngle(v.s)), SanitizeMaxLen)

\* /^[a-zA-Z0-9\s\-_]*$/
PatternChars ==
    Range(LowerLetters) \cup Range(UpperLetters) \cup Range(Digits)
        \cup WhiteSpace \cup {"-", "_"}

validateWorkCodeInput(field, value, max) ==
    IF Len(value) > max THEN FALSE
    ELSE \A i \in 1..Len(value) : value[i] \in PatternChars

\* Number.isInteger
NumberIsInteger(v) == v.t = "number" /\ v.n % v.d = 0

validateStatus_NoIntegerCheck(status) ==
    status.t = "number" /\ status.n >= 0 /\ status.n <= 3 * status.d

validateStatus(status) ==
    NumberIsInteger(status) /\ status.n >= 0 /\ status.n <= 3 * status.d

\* value.length of null or undefined
LengthOfNothing == "TypeError: Cannot read properties of null (reading 'length')"

\* validateWorkCodeInput on a value as it is at run time: null and undefined
\* have no length (a TypeError); the outcome is "" with the result, or the
\* error thrown
validateWorkCodeInputThrows(value) == value.t \in {"null", "undefined"}

validateWorkCodeInputValue(field, value, max) ==
    IF value.t = "string" THEN validateWorkCodeInput(field, value.s, max)
    ELSE \* a number has no length: undefined > max is false; test() converts
         \A i \in 1..Len(JSToString(value)) : JSToString(value)[i] \in PatternChars

----------------------------------------------------------------------------
(* WorkCodeService                                                         *)

Inactive == <<"I", "n", "a", "c", "t", "i", "v", "e">>
Active == <<"A", "c", "t", "i", "v", "e">>
Pending == <<"P", "e", "n", "d", "i", "n", "g">>
Archived == <<"A", "r", "c", "h", "i", "v", "e", "d">>
Unknown == <<"U", "n", "k", "n", "o", "w", "n">>

\* labels[status] || 'Unknown': the property key of a value is its string form
getStatusLabel(status) ==
    LET key == JSToString(status)
    IN CASE key = <<"0">> -> Inactive
         [] key = <<"1">> -> Active
         [] key = <<"2">> -> Pending
         [] key = <<"3">> -> Archived
         [] OTHER -> Unknown

\* code[fieldName]: undefined for a property the record does not have
GetField(code, fieldName) ==
    IF fieldName \in DOMAIN code THEN code[fieldName] ELSE JSUndefined

fieldMatches_NumericStatus(code, fieldName, query) ==
    LET value == GetField(code, fieldName)
    IN IF value.t \in {"null", "undefined"} THEN FALSE
       ELSE includes(toLowerCase(JSToString(value)), query)

fieldMatches_NoNullCheck(code, fieldName, query) ==
    LET value == GetField(code, fieldName)
    IN IF fieldName = "status"
       THEN includes(toLowerCase(getStatusLabel(value)), query)
       ELSE includes(toLowerCase(JSToString(value)), query)

\* the callback of visibleFields.some
fieldMatches(code, fieldName, query) ==
    LET value == GetField(code, fieldName)
    IN IF value.t \in {"null", "undefined"} THEN FALSE
       ELSE IF fieldName = "status"
            THEN includes(toLowerCase(getStatusLabel(value)), query)
            ELSE includes(toLowerCase(JSToString(value)), query)

\* one copy of each record per matching field, instead of some()
RECURSIVE PerFieldMatches(_, _, _)
PerFieldMatches(codes, fields, query) ==
    IF codes = <<>> THEN <<>>
    ELSE LET code == Head(codes)
             hits == SelectSeq(fields, LAMBDA f : fieldMatches(code, f, query))
         IN [i \in 1..Len(hits) |-> code] \o PerFieldMatches(Tail(codes), fields, query)

filterWorkCodes_PerField(codes, searchQuery, fields) ==
    IF trim(searchQuery) = <<>> THEN codes
    ELSE PerFieldMatches(codes, fields, sanitizeInput(JSString(toLowerCase(searchQuery))))

filterWorkCodes_NoEarlyReturn(codes, searchQuery, fields) ==
    LET query == sanitizeInput(JSString(toLowerCase(searchQuery)))
    IN SelectSeq(codes, LAMBDA code :
           \E k \in 1..Len(fields) : fieldMatches(code, fields[k], query))

filterWorkCodes(codes, searchQuery, fields) ==
    IF trim(searchQuery) = <<>> THEN codes
    ELSE LET query == sanitizeInput(JSString(toLowerCase(searchQuery)))
         IN SelectSeq(codes, LAMBDA code :
                \E k \in 1..Len(fields) : fieldMatches(code, fields[k], query))

\* one entry of Object.entries(fieldConfigs)
FieldConfig(key, label, required, visible) ==
    [key |-> key, label |-> label, required |-> required, visible |-> visible,
     enabled |-> TRUE, readonly |-> FALSE]

validateRequiredFields_LastMissing(data, fieldConfigs) ==
    LET requiredFields == SelectSeq(fieldConfigs, LAMBDA c : c.required /\ c.visible)
        missing == SelectSeq(requiredFields, LAMBDA c : Falsy(data[c.key]))
    IN IF missing # <<>>
       THEN [isValid |-> FALSE, missingField |-> missing[Len(missing)].label]
       ELSE [isValid |-> TRUE]

\* the loop returns at the first required and visible field whose value is falsy
validateRequiredFields(data, fieldConfigs) ==
    LET requiredFields == SelectSeq(fieldConfigs, LAMBDA c : c.required /\ c.visible)
        missing == SelectSeq(requiredFields, LAMBDA c : Falsy(data[c.key]))
    IN IF missing # <<>>
       THEN [isValid |-> FALSE, missingField |-> missing[1].label]
       ELSE [isValid |-> TRUE]

----------------------------------------------------------------------------
(* WorkCodeApiClient                                                       *)

\* one check of validateWorkCodeData: "" when it passes, else the message thrown
TextCheck(field, value, max, message) ==
    IF validateWorkCodeInputThrows(value) THEN LengthOfNothing
    ELSE IF ~validateWorkCodeInputValue(field, value, max) THEN message
    ELSE ""

FirstThrown(checks) ==
    LET failed == SelectSeq(checks, LAMBDA m : m # "")
    IN IF failed = <<>> THEN "" ELSE failed[1]

validateWorkCodeData_NoStatusCheck(data) ==
    IF Falsy(data.short_work_code) \/ Falsy(data.long_work_code)
    THEN "Required fields are missing"
    ELSE FirstThrown(<<
        TextCheck("prefix", data.prefix, MaxCodeLen, "Invalid prefix format or length"),
        TextCheck("suffix", data.suffix, MaxCodeLen, "Invalid suffix format or length"),
        TextCheck("short_work_code", data.short_work_code, MaxCodeLen,
                  "Invalid short work code format or length"),
        TextCheck("long_work_code", data.long_work_code, MaxLongCodeLen,
                  "Invalid long work code format or length") >>)

\* "" when every check passes, else the message of the error thrown
validateWorkCodeData(data) ==
    IF Falsy(data.short_work_code) \/ Falsy(data.long_work_code)
    THEN "Required fields are missing"
    ELSE FirstThrown(<<
        TextCheck("prefix", data.prefix, MaxCodeLen, "Invalid prefix format or length"),
        TextCheck("suffix", data.suffix, MaxCodeLen, "Invalid suffix format or length"),
        TextCheck("short_work_code", data.short_work_code, MaxCodeLen,
                  "Invalid short work code format or length"),
        TextCheck("long_work_code", data.long_work_code, MaxLongCodeLen,
                  "Invalid long work code format or length"),
        IF validateStatus(data.status) THEN "" ELSE "Invalid status value" >>)

sanitizeWorkCodeData_RawDescription(data) ==
    [prefix |-> JSString(sanitizeInput(data.prefix)),
     suffix |-> JSString(sanitizeInput(data.suffix)),
     short_work_code |-> JSString(sanitizeInput(data.short_work_code)),
     long_work_code |-> JSString(sanitizeInput(data.long_work_code)),
     description |-> data.description,
     status |-> data.status]

sanitizeWorkCodeData(data) ==
    [prefix |-> JSString(sanitizeInput(data.prefix)),
     suffix |-> JSString(sanitizeInput(data.suffix)),
     short_work_code |-> JSString(sanitizeInput(data.short_work_code)),
     long_work_code |-> JSString(sanitizeInput(data.long_work_code)),
     description |-> JSString(sanitizeInput(data.description)),
     status |-> data.status]

----------------------------------------------------------------------------
(* ConfigurationManager                                                    *)

\* getDefaultPageConfig().fields
DefaultFields ==
    << FieldConfig("prefix", "Prefix", FALSE, TRUE),
       FieldConfig("suffix", "Suffix", FALSE, TRUE),
       FieldConfig("short_work_code", "Short Work Code", TRUE, TRUE),
       FieldConfig("long_work_code", "Long Work Code", TRUE, TRUE),
       FieldConfig("description", "Description", FALSE, TRUE),
       FieldConfig("status", "Status", FALSE, TRUE) >>

\* the default configuration with one field's flags changed
WithFlags(key, required, visible) ==
    [i \in 1..Len(DefaultFields) |->
        IF DefaultFields[i].key = key
        THEN [DefaultFields[i] EXCEPT !.required = required, !.visible = visible]
        ELSE DefaultFields[i]]

\* the pageConfig prop: the default, status required, the short code
\* required but hidden, the short code optional, the prefix required
PageConfigs ==
    { DefaultFields,
      WithFlags("status", TRUE, TRUE),
      WithFlags("short_work_code", TRUE, FALSE),
      WithFlags("short_work_code", FALSE, TRUE),
      WithFlags("prefix", TRUE, TRUE) }

----------------------------------------------------------------------------
(* Inputs.                                                                 *)

\* all sequences over S of length at most n
RECURSIVE SeqsUpTo(_, _)
SeqsUpTo(S, n) ==
    IF n = 0 THEN {<<>>}
    ELSE LET shorter == SeqsUpTo(S, n - 1)
         IN shorter \cup {Append(s, c) : s \in shorter, c \in S}

Fill(n) == [i \in 1..n |-> "x"]

SanitizeAlphabet == {"a", " ", "<", ">"}
FillLens == {0, 1} \cup ((SanitizeMaxLen - 3)..(SanitizeMaxLen + 1))

\* short strings, and strings around the length limit with every short
\* head and tail
SanitizeStrings ==
    {h \o Fill(n) \o tl : h \in SeqsUpTo(SanitizeAlphabet, MaxHeadLen),
                          n \in FillLens,
                          tl \in SeqsUpTo(SanitizeAlphabet, MaxTailLen)}

SanitizeInputs ==
    {PackValue(JSString(s)) : s \in SanitizeStrings} \cup {JSNull, JSUndefined}

ValueAlphabet == {"a", "Z", "7", "-", "_", " ", "\t", "\n", "<"}
ValueInputs == {JSString(s) : s \in SeqsUpTo(ValueAlphabet, MaxValueLen)}
MaxLengths == {1, 2, 10, 50}

\* integers, halves (odd n over 2) and values that are not numbers
StatusInputs ==
    {JSNumber(n, 1) : n \in (0 - 3)..9}
        \cup {JSNumber(n, 2) : n \in {k \in (0 - 5)..9 : k % 2 = 1}}
        \cup {JSString(<<"1">>), JSString(<<>>), JSNull, JSUndefined}

WorkCodeRecord(id, short, status) ==
    [work_code_id |-> id, short_work_code |-> short, status |-> status]

RecordPool ==
    {WorkCodeRecord(JSNumber(id, 1), short, status) :
        id \in {1, 2},
        short \in {JSString(<<"A", "B", "1">>), JSString(<<"X", "Y", "9">>), JSNull},
        status \in {JSNumber(0, 1), JSNumber(1, 1)}}
    \cup {WorkCodeRecord(JSNumber(3, 1), JSString(<<"1">>), JSNumber(7, 1)),
          WorkCodeRecord(JSNumber(1, 1), JSUndefined, JSNull),
          WorkCodeRecord(JSNumber(2, 1), JSNull, JSUndefined)}

RecordLists == SeqsUpTo(RecordPool, MaxRecords)

Queries ==
    {JSString(q) : q \in
        { <<>>, <<" ", " ">>, <<"\t">>,
          <<"a", "c", "t", "i", "v", "e">>,
          <<" ", "A", "c", "t", "i", "v", "e", " ">>,
          <<"i", "n", "a">>,
          <<"1">>, <<"7">>, <<"u">>, <<"<">>,
          <<"<", "a", ">", "b">>, <<"x", "y">>, <<"a">> }}

FieldLists ==
    { <<"short_work_code", "status">>, <<"status">>, <<"short_work_code">>,
      <<"work_code_id">>, <<"description", "short_work_code">>, <<>> }

----------------------------------------------------------------------------
\* n times the character c
Repeat(c, n) == [i \in 1..n |-> c]

PackData(data) == [f \in DOMAIN data |-> PackValue(data[f])]
UnpackData(data) == [f \in DOMAIN data |-> UnpackValue(data[f])]

\* candidate records: empty, well-formed, whitespace-only, malformed,
\* over-long and null text fields; valid, invalid and non-integer status
FormDatas ==
    {PackData([prefix |-> p, suffix |-> s, short_work_code |-> sh,
               long_work_code |-> lg, description |-> d, status |-> st]) :
        p \in {JSString(<<>>), JSString(<<"P", "1">>), JSString(<<"a", "\t", "b">>),
               JSString(Repeat("P", MaxCodeLen + 1)), JSNull},
        s \in {JSString(<<>>), JSString(<<"x", "!">>)},
        sh \in {JSString(<<>>), JSString(<<"S", "1">>), JSString(<<" ">>), JSNull},
        lg \in {JSString(<<>>), JSString(<<"L", "1">>),
                JSString(Repeat("L", MaxLongCodeLen + 1))},
        d \in {JSString(<<>>), JSString(<<"<", "d", ">">>)},
        st \in {JSNumber(0, 1), JSNumber(1, 1), JSNumber(4, 1), JSNumber(3, 2)}}

----------------------------------------------------------------------------
(* Calls of the pure functions.                                            *)

Idle ==
    /\ maxLength = 0
    /\ workCodes = <<>>
    /\ visibleFields = <<>>

NoForm == formData = <<>> /\ pageConfig = <<>>

\* the component is not mounted
NoComponent ==
    /\ editingCode = JSNull
    /\ isDialogOpen = FALSE
    /\ isSubmitting = FALSE
    /\ isLoading = FALSE
    /\ error = ""
    /\ alerts = <<>>
    /\ call = <<>>
    /\ sent = <<>>
    /\ edits = 0
    /\ outcome = ""

\* no delete is under way
NoDelete ==
    /\ deleteDialogOpen = FALSE
    /\ deletingId = JSNull
    /\ deleted = <<>>

\* the rate limiter, the event bus and the shared state are not in use
NoRateLimit ==
    /\ requestTimestamps = <<>>
    /\ now = 0
    /\ rateLimit = <<>>
    /\ calls = <<>>

NoHost ==
    /\ events = <<>>
    /\ subs = <<>>
    /\ iter = <<>>
    /\ delivered = <<>>
    /\ sharedState = <<>>
    /\ queue = <<>>
    /\ published = <<>>
    /\ added = 0

Init ==
    /\ pc = "call"
    /\ ret = <<>>
    /\ ret2 = <<>>
    /\ thrown = ""
    /\ NoComponent
    /\ NoDelete
    /\ NoRateLimit
    /\ NoHost
    /\ \/ fn = "sanitizeInput" /\ input \in SanitizeInputs /\ Idle /\ NoForm
       \/ /\ fn = "validateWorkCodeInput"
          /\ input \in ValueInputs \cup {JSNull, JSUndefined}
          /\ maxLength \in MaxLengths
          /\ workCodes = <<>>
          /\ visibleFields = <<>>
          /\ NoForm
       \/ fn = "validateStatus" /\ input \in StatusInputs /\ Idle /\ NoForm
       \/ /\ fn = "filterWorkCodes"
          /\ input \in Queries
          /\ maxLength = 0
          /\ workCodes \in RecordLists
          /\ visibleFields \in FieldLists
          /\ NoForm
       \/ /\ fn = "validateRequiredFields"
          /\ input = JSNull /\ Idle
          /\ formData \in FormDatas
          /\ pageConfig \in PageConfigs
       \/ /\ fn = "validateWorkCodeData"
          /\ input = JSNull /\ Idle
          /\ formData \in FormDatas
          /\ pageConfig = <<>>

Returns(value) ==
    /\ ret' = value
    /\ thrown' = ""
    /\ pc' = "done"
    /\ UNCHANGED <<fn, input, maxLength, visibleFields, ret2>>
    /\ UNCHANGED <<workCodes, formData, pageConfig, uiVars, delVars, hostVars>>

Throws(message) ==
    /\ thrown' = message
    /\ pc' = "done"
    /\ UNCHANGED <<fn, input, maxLength, visibleFields, ret, ret2>>
    /\ UNCHANGED <<workCodes, formData, pageConfig, uiVars, delVars, hostVars>>

SanitizeInput ==
    /\ fn = "sanitizeInput" /\ pc = "call"
    /\ Returns(Pack(sanitizeInput(UnpackValue(input))))

\* a sanitized value is sanitized again (handleInputChange, then
\* sanitizeWorkCodeData)
SanitizeAgain ==
    /\ fn = "sanitizeInput" /\ pc = "done"
    /\ ret2' = Pack(sanitizeInput(JSString(Unpack(ret))))
    /\ pc' = "again"
    /\ UNCHANGED <<fn, input, maxLength, visibleFields, ret, thrown>>
    /\ UNCHANGED <<workCodes, formData, pageConfig, uiVars, delVars, hostVars>>

ValidateWorkCodeInput ==
    /\ fn = "validateWorkCodeInput" /\ pc = "call"
    /\ IF validateWorkCodeInputThrows(input)
       THEN Throws(LengthOfNothing)
       ELSE Returns(validateWorkCodeInputValue("prefix", input, maxLength))

ValidateStatus ==
    /\ fn = "validateStatus" /\ pc = "call"
    /\ Returns(validateStatus(input))

FilterWorkCodes ==
    /\ fn = "filterWorkCodes" /\ pc = "call"
    /\ Returns(filterWorkCodes(workCodes, input.s, visibleFields))

ValidateRequiredFields ==
    /\ fn = "validateRequiredFields" /\ pc = "call"
    /\ Returns(validateRequiredFields(UnpackData(formData), pageConfig))

ValidateWorkCodeData ==
    /\ fn = "validateWorkCodeData" /\ pc = "call"
    /\ LET message == validateWorkCodeData(UnpackData(formData))
       IN IF message # "" THEN Throws(message) ELSE Returns(JSUndefined)

Next ==
    \/ SanitizeInput
    \/ SanitizeAgain
    \/ ValidateWorkCodeInput
    \/ ValidateStatus
    \/ FilterWorkCodes
    \/ ValidateRequiredFields
    \/ ValidateWorkCodeData

Spec == Init /\ [][Next]_vars

----------------------------------------------------------------------------
(* The component WorkCodeManagement with the default WorkCodeApiClient.    *)

TextFields == {"prefix", "suffix", "short_work_code", "long_work_code", "description"}

\* a WorkCode as the backend holds it
WorkCode(id, prefix, short, long, description, status) ==
    [work_code_id |-> JSNumber(id, 1),
     prefix |-> JSString(prefix),
     suffix |-> JSString(<<>>),
     short_work_code |-> JSString(short),
     long_work_code |-> JSString(long),
     description |-> JSString(description),
     status |-> JSNumber(status, 1)]

\* the backend's records: an ordinary one, and one with a blank short code
\* and a description of 1001 characters with an angle bracket
StoredCode1 == PackData(WorkCode(1, <<"P", "1">>, <<"S", "1">>, <<"L", "1">>, <<>>, 1))
StoredCode2 ==
    PackData(WorkCode(2, <<>>, <<" ">>, <<"L", "2">>,
                      <<"<">> \o Repeat("d", SanitizeMaxLen), 0))

\* a record whose identifier is not a positive integer
StoredCode3 == PackData(WorkCode(-1, <<"P", "3">>, <<"S", "3">>, <<"L", "3">>, <<>>, 1))

\* what GET /work-codes can deliver
BackendLists == {<<>>, <<StoredCode1, StoredCode2>>, <<StoredCode3>>}

\* the HTTP statuses the backend answers with
Statuses == {200, 500}

getUserFriendlyError(status) ==
    CASE status = 400 -> "Invalid request. Please check your input."
      [] status = 401 -> "Authentication required. Please log in."
      [] status = 403 -> "You do not have permission to perform this action."
      [] status = 404 -> "The requested resource was not found."
      [] status = 409 -> "This resource already exists or conflicts with existing data."
      [] status = 429 -> "Too many requests. Please try again later."
      [] status = 500 -> "Server error. Please try again later."
      [] OTHER -> "An unexpected error occurred. Please try again."

TimeoutMessage == "Request timeout. Please try again."

\* the message of the error fetch() rejects with when the network fails
FetchFailure == "Failed to fetch"

\* the message of the error response.json() rejects with
BodyFailure == "Unexpected end of JSON input"

\* the phases of a call: fetch() pending with the abort timer armed;
\* response received, timer cleared, body (json() or text()) pending
NoCall == [phase |-> "none", status |-> 0]
Waiting == [phase |-> "waiting", status |-> 0]
ReadingBody(status) == [phase |-> "body", status |-> status]

\* the form of a new record (useState, openDialog)
BlankForm ==
    PackData([prefix |-> JSString(<<>>), suffix |-> JSString(<<>>),
              short_work_code |-> JSString(<<>>), long_work_code |-> JSString(<<>>),
              description |-> JSString(<<>>), status |-> JSNumber(1, 1)])

FormOf(code) ==
    [prefix |-> code.prefix, suffix |-> code.suffix,
     short_work_code |-> code.short_work_code,
     long_work_code |-> code.long_work_code,
     description |-> code.description, status |-> code.status]

\* the pageConfig prop of the mounted component
UIPageConfigs == {DefaultFields, WithFlags("short_work_code", FALSE, TRUE)}

\* what the user types or selects: field and raw value
Typed ==
    { <<"prefix", JSString(<<"a", "\t", "b">>)>>,
      <<"prefix", JSString(Repeat("P", MaxCodeLen + 1))>>,
      <<"short_work_code", JSString(<<" ", "<", "S", "9", ">">>)>>,
      <<"long_work_code", JSString(<<"L", "9">>)>>,
      <<"long_work_code", JSString(Repeat("L", MaxLongCodeLen + 1))>>,
      <<"status", JSNumber(0, 1)>> }

getFieldConfig(fieldName) ==
    IF \E i \in 1..Len(pageConfig) : pageConfig[i].key = fieldName
    THEN pageConfig[CHOOSE i \in 1..Len(pageConfig) : pageConfig[i].key = fieldName]
    ELSE FieldConfig(fieldName, fieldName, FALSE, TRUE)

\* the identifier the backend gives a new record
NextId(codes) ==
    LET ids == {codes[i].work_code_id.n : i \in 1..Len(codes)} \cup {0}
    IN 1 + CHOOSE m \in ids : \A n \in ids : n <= m

\* the record the backend answers a POST or PUT with: the body under the
\* identifier of the URL
Answered(id, body) == [work_code_id |-> JSNumber(id, 1)] @@ body

replaceUpdated_Everywhere(prev, id, updatedCode) ==
    [i \in 1..Len(prev) |-> updatedCode]

\* prev.map(code => code.work_code_id === id ? updatedCode : code)
replaceUpdated(prev, id, updatedCode) ==
    [i \in 1..Len(prev) |->
        IF prev[i].work_code_id = id THEN updatedCode ELSE prev[i]]

\* the request the create or update in flight was started with
LastSent == sent[Len(sent)]

Mounted ==
    /\ fn = "WorkCodeManagement"
    /\ pc = "mounted"
    /\ input = JSNull
    /\ Idle
    /\ ret = <<>> /\ ret2 = <<>> /\ thrown = ""

\* the component after its first render and effect: getAll is in flight
InitUI ==
    /\ Mounted
    /\ pageConfig \in UIPageConfigs
    /\ formData = BlankForm
    /\ editingCode = JSNull
    /\ isDialogOpen = FALSE
    /\ isSubmitting = FALSE
    /\ isLoading = TRUE
    /\ error = ""
    /\ alerts = <<>>
    /\ call = [load |-> Waiting, save |-> NoCall, delete |-> NoCall]
    /\ sent = <<>>
    /\ edits = 0
    /\ outcome = "mounted"
    /\ NoDelete
    /\ NoRateLimit
    /\ NoHost

\* fetch() of getAll resolves with the response; clearTimeout(id)
LoadResponds ==
    /\ call.load.phase = "waiting"
    /\ \E status \in Statuses : call' = [call EXCEPT !.load = ReadingBody(status)]
    /\ outcome' = ""
    /\ alerts' = <<>>
    /\ UNCHANGED <<callVars, hostVars, delVars, workCodes, formData, pageConfig, editingCode,
                   isDialogOpen, isSubmitting, isLoading, error, sent, edits>>

\* the end of fetchWorkCodes with the error message thrown
LoadEnds(message) ==
    /\ error' = message
    /\ isLoading' = FALSE
    /\ call' = [call EXCEPT !.load = NoCall]
    /\ outcome' = "load failed"
    /\ alerts' = <<>>
    /\ UNCHANGED <<callVars, hostVars, delVars, workCodes, formData, pageConfig, editingCode,
                   isDialogOpen, isSubmitting, sent, edits>>

\* the body of the getAll response arrives: handleResponse, then the rest
\* of fetchWorkCodes
LoadBodyArrives ==
    /\ call.load.phase = "body"
    /\ IF call.load.status = 200
       THEN /\ \E data \in BackendLists : workCodes' = data
            /\ isLoading' = FALSE
            /\ call' = [call EXCEPT !.load = NoCall]
            /\ outcome' = "loaded"
            /\ alerts' = <<>>
            /\ UNCHANGED <<callVars, hostVars, delVars, formData, pageConfig, editingCode, isDialogOpen,
                           isSubmitting, error, sent, edits>>
       ELSE LoadEnds(getUserFriendlyError(call.load.status))

\* the network fails: fetch() rejects, or reading the body does
LoadFails ==
    /\ call.load.phase # "none"
    /\ LoadEnds(IF call.load.phase = "waiting" THEN FetchFailure
                ELSE IF call.load.status = 200 THEN BodyFailure
                ELSE getUserFriendlyError(call.load.status))

\* the abort timer of fetchWithTimeout fires after 30000 ms
LoadTimeout ==
    /\ call.load.phase = "waiting"
    /\ LoadEnds(TimeoutMessage)

\* the Add button, or the edit button of a row of the table
OpenDialog ==
    /\ ~isDialogOpen
    /\ ~deleteDialogOpen
    /\ \/ /\ editingCode' = JSNull
          /\ formData' = BlankForm
       \/ /\ ~isLoading
          /\ \E i \in 1..Len(workCodes) :
                /\ editingCode' = workCodes[i]
                /\ formData' = FormOf(workCodes[i])
    /\ isDialogOpen' = TRUE
    /\ outcome' = ""
    /\ alerts' = <<>>
    /\ UNCHANGED <<callVars, hostVars, delVars, workCodes, pageConfig, isSubmitting, isLoading,
                   error, call, sent, edits>>

\* the dialog's onOpenChange(false): the close button, Cancel, Escape
CloseDialog ==
    /\ isDialogOpen
    /\ isDialogOpen' = FALSE
    /\ outcome' = ""
    /\ alerts' = <<>>
    /\ UNCHANGED <<callVars, hostVars, delVars, workCodes, formData, pageConfig, editingCode,
                   isSubmitting, isLoading, error, call, sent, edits>>

\* the Dismiss button of the error banner
DismissError ==
    /\ error # ""
    /\ error' = ""
    /\ outcome' = ""
    /\ alerts' = <<>>
    /\ UNCHANGED <<callVars, hostVars, delVars, workCodes, formData, pageConfig, editingCode,
                   isDialogOpen, isSubmitting, isLoading, call, sent, edits>>

HandleInputChange ==
    /\ isDialogOpen
    /\ edits < MaxEdits
    /\ \E typed \in Typed :
          LET field == typed[1]
              value == typed[2]
              fieldConfig == getFieldConfig(field)
              sanitizedValue == IF value.t = "string"
                                THEN JSString(sanitizeInput(value))
                                ELSE value
          IN /\ fieldConfig.visible
             /\ formData' = IF ~fieldConfig.enabled \/ fieldConfig.readonly
                            THEN formData
                            ELSE [formData EXCEPT ![field] = PackValue(sanitizedValue)]
    /\ edits' = edits + 1
    /\ outcome' = ""
    /\ alerts' = <<>>
    /\ UNCHANGED <<callVars, hostVars, delVars, workCodes, pageConfig, editingCode, isDialogOpen,
                   isSubmitting, isLoading, error, call, sent>>

\* the Create / Update button: handleSubmit up to its await.  client.update
\* and client.create throw before any request when a check fails
HandleSubmit ==
    /\ isDialogOpen
    /\ ~isSubmitting
    /\ LET data == UnpackData(formData)
           validation == validateRequiredFields(data, pageConfig)
           editing == editingCode # JSNull
           id == IF editing THEN editingCode.work_code_id ELSE JSNumber(0, 1)
           message == IF editing /\ ~(NumberIsInteger(id) /\ id.n > 0)
                      THEN "Invalid ID"
                      ELSE validateWorkCodeData(data)
       IN IF ~validation.isValid
          THEN /\ alerts' = <<validation.missingField \o " is required">>
               /\ outcome' = "missing"
               /\ UNCHANGED <<error, isSubmitting, call, sent>>
          ELSE IF message # ""
          THEN /\ error' = message
               /\ alerts' = <<"Failed to save work code: " \o message>>
               /\ outcome' = "rejected"
               /\ UNCHANGED <<isSubmitting, call, sent>>
          ELSE /\ Len(sent) + Len(deleted) < MaxSent
               /\ isSubmitting' = TRUE
               /\ error' = ""
               /\ sent' = Append(sent,
                                 [method |-> IF editing THEN "PUT" ELSE "POST",
                                  id |-> id.n,
                                  data |-> formData,
                                  body |-> PackData(sanitizeWorkCodeData(data))])
               /\ call' = [call EXCEPT !.save = Waiting]
               /\ outcome' = "sent"
               /\ alerts' = <<>>
    /\ UNCHANGED <<callVars, hostVars, delVars, workCodes, formData, pageConfig, editingCode,
                   isDialogOpen, isLoading, edits>>

\* fetch() of the create or update resolves with the response; clearTimeout(id)
SaveResponds ==
    /\ call.save.phase = "waiting"
    /\ \E status \in Statuses : call' = [call EXCEPT !.save = ReadingBody(status)]
    /\ outcome' = ""
    /\ alerts' = <<>>
    /\ UNCHANGED <<callVars, hostVars, delVars, workCodes, formData, pageConfig, editingCode,
                   isDialogOpen, isSubmitting, isLoading, error, sent, edits>>

SaveEnds_Retry(message) ==
    /\ error' = message
    /\ alerts' = <<"Failed to save work code: " \o message>>
    /\ isSubmitting' = TRUE
    /\ call' = [call EXCEPT !.save = Waiting]
    /\ sent' = Append(sent, LastSent)
    /\ outcome' = "save failed"
    /\ UNCHANGED <<callVars, hostVars, delVars, workCodes, formData, pageConfig,
                   editingCode, isDialogOpen, isLoading, edits>>

\* the catch and finally of handleSubmit
SaveEnds(message) ==
    /\ error' = message
    /\ alerts' = <<"Failed to save work code: " \o message>>
    /\ isSubmitting' = FALSE
    /\ call' = [call EXCEPT !.save = NoCall]
    /\ outcome' = "save failed"
    /\ UNCHANGED <<callVars, hostVars, delVars, workCodes, formData, pageConfig, editingCode,
                   isDialogOpen, isLoading, sent, edits>>

\* the body of the response arrives: handleResponse, then the rest of
\* handleSubmit with the editingCode it was called with
SaveBodyArrives ==
    /\ call.save.phase = "body"
    /\ IF call.save.status = 200
       THEN /\ IF LastSent.method = "PUT"
               THEN /\ workCodes' = replaceUpdated(workCodes, JSNumber(LastSent.id, 1),
                                                   Answered(LastSent.id, LastSent.body))
                    /\ outcome' = "updated"
               ELSE /\ workCodes' = Append(workCodes,
                                           Answered(NextId(workCodes), LastSent.body))
                    /\ outcome' = "created"
            /\ alerts' = <<>>
            /\ isDialogOpen' = FALSE
            /\ editingCode' = JSNull
            /\ isSubmitting' = FALSE
            /\ call' = [call EXCEPT !.save = NoCall]
            /\ UNCHANGED <<callVars, hostVars, delVars, formData, pageConfig, isLoading, error,
                           sent, edits>>
       ELSE SaveEnds(getUserFriendlyError(call.save.status))

SaveFails ==
    /\ call.save.phase # "none"
    /\ SaveEnds(IF call.save.phase = "waiting" THEN FetchFailure
                ELSE IF call.save.status = 200 THEN BodyFailure
                ELSE getUserFriendlyError(call.save.status))

SaveTimeout ==
    /\ call.save.phase = "waiting"
    /\ SaveEnds(TimeoutMessage)

\* the delete button of a row of the table: openDeleteDialog(id)
OpenDeleteDialog ==
    /\ ~isLoading
    /\ ~isDialogOpen
    /\ ~deleteDialogOpen
    /\ \E i \in 1..Len(workCodes) : deletingId' = workCodes[i].work_code_id
    /\ deleteDialogOpen' = TRUE
    /\ outcome' = ""
    /\ alerts' = <<>>
    /\ UNCHANGED <<callVars, hostVars, workCodes, formData, pageConfig, editingCode,
                   isDialogOpen, isSubmitting, isLoading, error, call, sent, edits,
                   deleted>>

\* the alert dialog's onOpenChange(false): Cancel, Escape
CloseDeleteDialog ==
    /\ deleteDialogOpen
    /\ deleteDialogOpen' = FALSE
    /\ outcome' = ""
    /\ alerts' = <<>>
    /\ UNCHANGED <<callVars, hostVars, workCodes, formData, pageConfig, editingCode,
                   isDialogOpen, isSubmitting, isLoading, error, call, sent, edits,
                   deletingId, deleted>>

\* handleDelete up to its await, on the component's state.  client.delete
\* throws before any request when the identifier is not a positive integer
handleDelete ==
    /\ IF Falsy(deletingId)
       THEN /\ outcome' = ""
            /\ alerts' = <<>>
            /\ UNCHANGED <<isSubmitting, error, call, deleted>>
       ELSE IF ~(NumberIsInteger(deletingId) /\ deletingId.n > 0)
       THEN /\ error' = "Invalid ID"
            /\ alerts' = <<"Failed to delete work code: Invalid ID">>
            /\ isSubmitting' = FALSE
            /\ outcome' = "delete rejected"
            /\ UNCHANGED <<call, deleted>>
       ELSE /\ Len(sent) + Len(deleted) < MaxSent
            /\ isSubmitting' = TRUE
            /\ error' = ""
            /\ deleted' = Append(deleted, deletingId)
            /\ call' = [call EXCEPT !.delete = Waiting]
            /\ outcome' = "delete sent"
            /\ alerts' = <<>>
    /\ UNCHANGED <<hostVars, workCodes, formData, pageConfig, editingCode,
                   isDialogOpen, isLoading, sent, edits, deleteDialogOpen,
                   deletingId>>

\* the Delete button of the alert dialog
HandleDelete ==
    /\ deleteDialogOpen
    /\ ~isSubmitting
    /\ handleDelete
    /\ UNCHANGED callVars

\* fetch() of the delete resolves with the response; clearTimeout(id)
DeleteResponds ==
    /\ call.delete.phase = "waiting"
    /\ \E status \in Statuses : call' = [call EXCEPT !.delete = ReadingBody(status)]
    /\ outcome' = ""
    /\ alerts' = <<>>
    /\ UNCHANGED <<callVars, hostVars, delVars, workCodes, formData, pageConfig,
                   editingCode, isDialogOpen, isSubmitting, isLoading, error, sent,
                   edits>>

DeleteEnds_NoError(message) ==
    /\ alerts' = <<"Failed to delete work code: " \o message>>
    /\ isSubmitting' = FALSE
    /\ call' = [call EXCEPT !.delete = NoCall]
    /\ outcome' = "delete failed"
    /\ UNCHANGED <<callVars, hostVars, delVars, workCodes, formData, pageConfig,
                   editingCode, isDialogOpen, isLoading, error, sent, edits>>

\* the catch and finally of handleDelete
DeleteEnds(message) ==
    /\ error' = message
    /\ alerts' = <<"Failed to delete work code: " \o message>>
    /\ isSubmitting' = FALSE
    /\ call' = [call EXCEPT !.delete = NoCall]
    /\ outcome' = "delete failed"
    /\ UNCHANGED <<callVars, hostVars, delVars, workCodes, formData, pageConfig,
                   editingCode, isDialogOpen, isLoading, sent, edits>>

\* prev.filter(code => code.work_code_id !== deletingId)
removeDeleted(prev, id) == SelectSeq(prev, LAMBDA code : code.work_code_id # id)

\* the body of the response arrives: handleResponse, then the rest of
\* handleDelete with the deletingId it was called with
DeleteBodyArrives ==
    /\ call.delete.phase = "body"
    /\ IF call.delete.status = 200
       THEN /\ workCodes' = removeDeleted(workCodes, deleted[Len(deleted)])
            /\ deleteDialogOpen' = FALSE
            /\ deletingId' = JSNull
            /\ isSubmitting' = FALSE
            /\ call' = [call EXCEPT !.delete = NoCall]
            /\ outcome' = "deleted"
            /\ alerts' = <<>>
            /\ UNCHANGED <<callVars, hostVars, formData, pageConfig, editingCode,
                           isDialogOpen, isLoading, error, sent, edits, deleted>>
       ELSE DeleteEnds(getUserFriendlyError(call.delete.status))

DeleteFails ==
    /\ call.delete.phase # "none"
    /\ DeleteEnds(IF call.delete.phase = "waiting" THEN FetchFailure
                  ELSE IF call.delete.status = 200 THEN BodyFailure
                  ELSE getUserFriendlyError(call.delete.status))

DeleteTimeout ==
    /\ call.delete.phase = "waiting"
    /\ DeleteEnds(TimeoutMessage)

NextUI ==
    \/ LoadResponds
    \/ LoadBodyArrives
    \/ LoadFails
    \/ LoadTimeout
    \/ OpenDialog
    \/ CloseDialog
    \/ DismissError
    \/ HandleInputChange
    \/ HandleSubmit
    \/ SaveResponds
    \/ SaveBodyArrives
    \/ SaveFails
    \/ SaveTimeout

SpecUI == InitUI /\ [][NextUI]_vars

\* the abort timers fire; nothing obliges the backend to answer
SpecUIFair ==
    /\ SpecUI
    /\ WF_vars(LoadTimeout)
    /\ WF_vars(SaveTimeout)

\* the form of a new record after the user typed a short and a long code,
\* and after a prefix with a tab as well
FilledForm ==
    [BlankForm EXCEPT
        !.short_work_code =
            PackValue(JSString(sanitizeInput(JSString(<<" ", "<", "S", "9", ">">>)))),
        !.long_work_code = PackValue(JSString(sanitizeInput(JSString(<<"L", "9">>))))]
FilledFormTab ==
    [FilledForm EXCEPT
        !.prefix = PackValue(JSString(sanitizeInput(JSString(<<"a", "\t", "b">>))))]

TooManyRequests == "Too many requests. Please wait a moment."

\* the component after its first render and effect, the dialog closed or
\* open on a new record the user filled in: getAll is in flight, or the rate
\* limiter refused it
InitOps ==
    /\ Mounted
    /\ pageConfig = DefaultFields
    /\ \/ isDialogOpen = FALSE /\ formData = BlankForm /\ edits = 0
       \/ isDialogOpen = TRUE /\ formData = FilledForm /\ edits = 2
       \/ isDialogOpen = TRUE /\ formData = FilledFormTab /\ edits = 3
    /\ editingCode = JSNull
    /\ isSubmitting = FALSE
    /\ \/ /\ isLoading = TRUE
          /\ error = ""
          /\ call = [load |-> Waiting, save |-> NoCall, delete |-> NoCall]
          /\ outcome = "mounted"
       \/ /\ isLoading = FALSE
          /\ error = TooManyRequests
          /\ call = [load |-> NoCall, save |-> NoCall, delete |-> NoCall]
          /\ outcome = "load failed"
    /\ alerts = <<>>
    /\ sent = <<>>
    /\ NoDelete
    /\ NoRateLimit
    /\ NoHost

\* the component without typing: loading, the dialogs, submitting, deleting
NextOps ==
    \/ LoadResponds
    \/ LoadBodyArrives
    \/ LoadFails
    \/ LoadTimeout
    \/ OpenDialog
    \/ CloseDialog
    \/ DismissError
    \/ HandleSubmit
    \/ SaveResponds
    \/ SaveBodyArrives
    \/ SaveFails
    \/ SaveTimeout
    \/ OpenDeleteDialog
    \/ CloseDeleteDialog
    \/ HandleDelete
    \/ DeleteResponds
    \/ DeleteBodyArrives
    \/ DeleteFails
    \/ DeleteTimeout

SpecOps == InitOps /\ [][NextOps]_vars

----------------------------------------------------------------------------
(* Calls of the WorkCodeApiClient methods and of handleDelete.             *)

\* the identifiers passed: zero, negative, non-integer, positive integers
IdInputs ==
    {JSNumber(0, 1), JSNumber(0 - 1, 1), JSNumber(3, 2), JSNumber(1, 1), JSNumber(2, 1)}

InvalidId_ZeroAllowed(id) == ~NumberIsInteger(id) \/ id.n < 0

\* !Number.isInteger(id) || id <= 0
InvalidId(id) == ~NumberIsInteger(id) \/ id.n <= 0

\* the statuses and bodies of the responses handleResponse is given; a body
\* that cannot be read is taken as 'Unknown error'
ResponseStatuses == {200, 204, 400, 401, 403, 404, 409, 429, 500, 503}
ResponseBodies == {"", "{\"detail\":\"relation work_codes\"}", "Unknown error"}

\* response.ok
ResponseOk(status) == status >= 200 /\ status <= 299

handleResponseMessage_Body(status, errorBody) == errorBody

\* the message of the Error handleResponse throws for a response that is
\* not ok, after reading its body
handleResponseMessage(status, errorBody) == getUserFriendlyError(status)

InitClient ==
    /\ pc = "call"
    /\ ret = <<>>
    /\ ret2 = <<>>
    /\ thrown = ""
    /\ NoRateLimit
    /\ NoHost
    /\ \/ /\ fn \in {"getById", "delete"}
          /\ input \in IdInputs
          /\ Idle /\ NoForm /\ NoComponent /\ NoDelete
       \/ /\ fn = "update"
          /\ input \in IdInputs
          /\ formData \in FormDatas
          /\ pageConfig = <<>>
          /\ Idle /\ NoComponent /\ NoDelete
       \/ /\ fn = "handleResponse"
          /\ \E status \in ResponseStatuses, body, other \in ResponseBodies :
                input = [status |-> status, bodies |-> <<body, other>>]
          /\ Idle /\ NoForm /\ NoComponent /\ NoDelete
       \* the component with the list loaded and the delete dialog open
       \/ /\ fn = "handleDelete"
          /\ input = JSNull
          /\ maxLength = 0
          /\ visibleFields = <<>>
          /\ workCodes \in BackendLists
          /\ formData = BlankForm
          /\ pageConfig = DefaultFields
          /\ editingCode = JSNull
          /\ isDialogOpen = FALSE
          /\ isSubmitting = FALSE
          /\ isLoading = FALSE
          /\ error \in {"", FetchFailure}
          /\ alerts = <<>>
          /\ call = [load |-> NoCall, save |-> NoCall, delete |-> NoCall]
          /\ sent = <<>>
          /\ edits = 0
          /\ outcome = ""
          /\ deleteDialogOpen = TRUE
          /\ deletingId \in IdInputs \cup {JSNull}
          /\ deleted = <<>>

\* fetchWithTimeout is called with the request
Sends(request) ==
    /\ sent' = Append(sent, request)
    /\ pc' = "sent"
    /\ UNCHANGED <<fn, input, maxLength, visibleFields, ret, ret2, thrown>>
    /\ UNCHANGED <<workCodes, formData, pageConfig, delVars, hostVars>>
    /\ UNCHANGED <<editingCode, isDialogOpen, isSubmitting, isLoading, error,
                   alerts, call, edits, outcome>>

GetById ==
    /\ fn = "getById" /\ pc = "call"
    /\ IF InvalidId(input)
       THEN Throws("Invalid ID")
       ELSE Sends([method |-> "GET", id |-> input.n, data |-> <<>>, body |-> <<>>])

Update ==
    /\ fn = "update" /\ pc = "call"
    /\ LET data == UnpackData(formData)
           message == validateWorkCodeData(data)
       IN IF InvalidId(input)
          THEN Throws("Invalid ID")
          ELSE IF message # ""
          THEN Throws(message)
          ELSE Sends([method |-> "PUT", id |-> input.n, data |-> formData,
                      body |-> PackData(sanitizeWorkCodeData(data))])

Delete ==
    /\ fn = "delete" /\ pc = "call"
    /\ IF InvalidId(input)
       THEN Throws("Invalid ID")
       ELSE /\ deleted' = Append(deleted, input)
            /\ pc' = "sent"
            /\ UNCHANGED <<fn, input, maxLength, visibleFields, ret, ret2, thrown>>
            /\ UNCHANGED <<workCodes, formData, pageConfig, uiVars, hostVars,
                           deleteDialogOpen, deletingId>>

\* handleDelete called with the deletingId of the state
HandleDeleteCall ==
    /\ fn = "handleDelete" /\ pc = "call"
    /\ handleDelete
    /\ pc' = "done"
    /\ UNCHANGED <<fn, input, maxLength, visibleFields, ret, ret2, thrown>>

\* handleResponse with each of two responses of the same status
HandleResponse ==
    /\ fn = "handleResponse" /\ pc = "call"
    /\ IF ResponseOk(input.status)
       THEN Returns(input.bodies)
       ELSE /\ thrown' = handleResponseMessage(input.status, input.bodies[1])
            /\ ret2' = handleResponseMessage(input.status, input.bodies[2])
            /\ pc' = "done"
            /\ UNCHANGED <<fn, input, maxLength, visibleFields, ret>>
            /\ UNCHANGED <<workCodes, formData, pageConfig, uiVars, delVars, hostVars>>

NextClient ==
    \/ GetById
    \/ Update
    \/ Delete
    \/ HandleDeleteCall
    \/ HandleResponse

SpecClient == InitClient /\ [][NextClient]_vars

----------------------------------------------------------------------------
(* SecurityValidator.checkRateLimit and WorkCodeApiClient.getAll.          *)

\* the parameters checkRateLimit is called with: its defaults, which getAll
\* uses, and small ones
DefaultRateLimit == [maxRequests |-> DefaultMaxRequests, windowMs |-> DefaultWindowMs]
RateLimits ==
    {[maxRequests |-> 1, windowMs |-> 2], [maxRequests |-> 2, windowMs |-> 3],
     DefaultRateLimit}

\* the steps of the clock: half a window, and a window less one millisecond
TickSizes(windowMs) == {windowMs \div 2, windowMs - 1}

\* this.requestTimestamps.filter(ts => now - ts < windowMs)
inWindow(timestamps, t, windowMs) == SelectSeq(timestamps, LAMBDA ts : t - ts < windowMs)

accepts_OneMore(timestamps, maxRequests) == Len(timestamps) <= maxRequests

\* !(this.requestTimestamps.length >= maxRequests)
accepts(timestamps, maxRequests) == Len(timestamps) < maxRequests

recorded_Always(timestamps, t, ok) == Append(timestamps, t)

\* this.requestTimestamps.push(now), reached by an accepted call only
recorded(timestamps, t, ok) == IF ok THEN Append(timestamps, t) ELSE timestamps

\* the GET request of getAll
GetRequest == [method |-> "GET", id |-> 0, data |-> <<>>, body |-> <<>>]

\* the calls getAll made at time 0 before the run: one less than the limit
EarlierCalls(limit) ==
    IF limit = DefaultRateLimit THEN DefaultMaxRequests - 1 ELSE 0

InitRate ==
    /\ fn = "checkRateLimit"
    /\ pc = "call"
    /\ input = JSNull
    /\ Idle /\ NoForm
    /\ ret = <<>> /\ ret2 = <<>> /\ thrown = ""
    /\ editingCode = JSNull
    /\ isDialogOpen = FALSE
    /\ isSubmitting = FALSE
    /\ isLoading = FALSE
    /\ error = ""
    /\ alerts = <<>>
    /\ call = <<>>
    /\ edits = 0
    /\ outcome = ""
    /\ NoDelete
    /\ NoHost
    /\ now = 0
    /\ rateLimit \in RateLimits
    /\ requestTimestamps = [i \in 1..EarlierCalls(rateLimit) |-> 0]
    /\ calls = [i \in 1..EarlierCalls(rateLimit) |->
                   [at |-> 0, by |-> "getAll", ok |-> TRUE]]
    /\ sent = [i \in 1..EarlierCalls(rateLimit) |-> GetRequest]

\* Date.now() advances
Tick ==
    /\ \E d \in TickSizes(rateLimit.windowMs) :
          /\ now + d <= MaxWindows * rateLimit.windowMs
          /\ now' = now + d
    /\ UNCHANGED <<callVars, workCodes, formData, pageConfig, uiVars, delVars>>
    /\ UNCHANGED <<requestTimestamps, rateLimit, calls>>
    /\ UNCHANGED <<events, subs, iter, delivered, sharedState, queue, published, added>>

\* checkRateLimit(maxRequests, windowMs) called by caller; the request is
\* what the caller sends when the call returns true
checkRateLimit(caller, request) ==
    /\ Len(calls) < EarlierCalls(rateLimit) + MaxCalls
    /\ LET kept == inWindow(requestTimestamps, now, rateLimit.windowMs)
           ok == accepts(kept, rateLimit.maxRequests)
       IN /\ requestTimestamps' = recorded(kept, now, ok)
          /\ calls' = Append(calls, [at |-> now, by |-> caller, ok |-> ok])
          /\ thrown' = IF caller = "getAll" /\ ~ok THEN TooManyRequests ELSE ""
          /\ sent' = IF ok THEN sent \o request ELSE sent
    /\ UNCHANGED <<fn, pc, input, maxLength, visibleFields, ret, ret2>>
    /\ UNCHANGED <<workCodes, formData, pageConfig, delVars, now, rateLimit>>
    /\ UNCHANGED <<editingCode, isDialogOpen, isSubmitting, isLoading, error,
                   alerts, call, edits, outcome>>
    /\ UNCHANGED <<events, subs, iter, delivered, sharedState, queue, published, added>>

\* a call of checkRateLimit with parameters of the caller's choice
CheckRateLimit ==
    /\ rateLimit # DefaultRateLimit
    /\ checkRateLimit("caller", <<>>)

\* getAll up to its await: checkRateLimit() with the defaults, then the GET
GetAll ==
    /\ rateLimit = DefaultRateLimit
    /\ checkRateLimit("getAll", <<GetRequest>>)

NextRate ==
    \/ Tick
    \/ CheckRateLimit
    \/ GetAll

SpecRate == InitRate /\ [][NextRate]_vars

----------------------------------------------------------------------------
(* The host's EventBus (src/host/host/src/styled.ts).  The events are "a"  *)
(* and "b", the callbacks "f" and "g", the data "d1" and "d2".  A publish  *)
(* is walked callback by callback; between two callbacks the callback just *)
(* invoked may subscribe and call unsubscribe functions.                   *)

\* no publish has been made
NoPublish ==
    [active |-> FALSE, event |-> "", data |-> "", array |-> <<>>, len |-> 0,
     i |-> 0, same |-> FALSE, start |-> <<>>]

\* constructor: this.events = {}; an event without an array has no callbacks
InitBus ==
    /\ fn = "EventBus"
    /\ pc = "idle"
    /\ input = JSNull
    /\ Idle /\ NoForm
    /\ ret = <<>> /\ ret2 = <<>> /\ thrown = ""
    /\ NoComponent
    /\ NoDelete
    /\ NoRateLimit
    /\ events = [event \in {"a", "b"} |-> <<>>]
    /\ subs = <<>>
    /\ iter = NoPublish
    /\ delivered = <<>>
    /\ sharedState = <<>>
    /\ queue = <<>>
    /\ published = <<>>
    /\ added = 0

\* subscribe(event, callback): push onto the event's array, also while
\* forEach walks that array
Subscribe ==
    /\ Len(subs) < MaxSubs
    /\ iter.active => iter.i > 1
    /\ \E event \in {"a", "b"}, callback \in {"f", "g"} :
          /\ events' = [events EXCEPT ![event] = Append(@, callback)]
          /\ subs' = Append(subs, [event |-> event, callback |-> callback, live |-> TRUE])
          /\ iter' = IF iter.active /\ iter.event = event /\ iter.same
                     THEN [iter EXCEPT !.array = Append(@, callback)]
                     ELSE iter
    /\ UNCHANGED <<callVars, workCodes, formData, pageConfig, uiVars, delVars>>
    /\ UNCHANGED <<requestTimestamps, now, rateLimit, calls>>
    /\ UNCHANGED <<delivered, sharedState, queue, published, added>>

\* this.events[event].filter(cb => cb !== callback)
removeCallback(array, callback) == SelectSeq(array, LAMBDA cb : cb # callback)

\* the function subscribe returned for the k-th subscription is called: the
\* event gets a new, filtered array
Unsubscribe ==
    /\ iter.active => iter.i > 1
    /\ \E k \in 1..Len(subs) :
          /\ events' = [events EXCEPT
                           ![subs[k].event] = removeCallback(@, subs[k].callback)]
          /\ subs' = [subs EXCEPT ![k].live = FALSE]
          /\ iter' = IF iter.active /\ iter.event = subs[k].event
                     THEN [iter EXCEPT !.same = FALSE]
                     ELSE iter
    /\ UNCHANGED <<callVars, workCodes, formData, pageConfig, uiVars, delVars>>
    /\ UNCHANGED <<requestTimestamps, now, rateLimit, calls>>
    /\ UNCHANGED <<delivered, sharedState, queue, published, added>>

\* publish(event, data): forEach starts on the event's array
Publish ==
    /\ ~iter.active
    /\ \E event \in {"a", "b"}, data \in {"d1", "d2"} :
          iter' = [active |-> events[event] # <<>>, event |-> event, data |-> data,
                   array |-> events[event], len |-> Len(events[event]), i |-> 1,
                   same |-> TRUE, start |-> events[event]]
    /\ delivered' = <<>>
    /\ UNCHANGED <<callVars, workCodes, formData, pageConfig, uiVars, delVars>>
    /\ UNCHANGED <<requestTimestamps, now, rateLimit, calls>>
    /\ UNCHANGED <<events, subs, sharedState, queue, published, added>>

forEachLength_Live(lengthAtStart, array) == Len(array)

\* Array.prototype.forEach fixes the number of elements it visits before
\* the first call
forEachLength(lengthAtStart, array) == lengthAtStart

\* forEach calls the next callback with the data, or ends
Invoke ==
    /\ iter.active
    /\ IF iter.i <= forEachLength(iter.len, iter.array)
       THEN /\ delivered' = Append(delivered, [callback |-> iter.array[iter.i],
                                               data |-> iter.data])
            /\ iter' = [iter EXCEPT !.i = @ + 1]
       ELSE /\ iter' = [iter EXCEPT !.active = FALSE]
            /\ UNCHANGED delivered
    /\ UNCHANGED <<callVars, workCodes, formData, pageConfig, uiVars, delVars>>
    /\ UNCHANGED <<requestTimestamps, now, rateLimit, calls>>
    /\ UNCHANGED <<events, subs, sharedState, queue, published, added>>

NextBus ==
    \/ Subscribe
    \/ Unsubscribe
    \/ Publish
    \/ Invoke

SpecBus == InitBus /\ [][NextBus]_vars

----------------------------------------------------------------------------
(* The host's SharedStateProvider (src/host/host/src/backupApp.tsx; the    *)
(* same code with a cart in styled.ts).  A handler reads sharedState as    *)
(* the last render left it; the functional updates it passes to            *)
(* setSharedState wait in the queue until React renders the provider       *)
(* again.  A notification is held by its number in the order of the        *)
(* addNotification calls.                                                  *)

addNotificationUpdate_NoSlice(prev, notification) ==
    [prev EXCEPT !.notifications = <<notification>> \o @]

\* prev => ({...prev, notifications: [notification, ...prev.notifications].slice(0, 5)})
addNotificationUpdate(prev, notification) ==
    [prev EXCEPT !.notifications =
        SubSeq(<<notification>> \o @, 1, Min(Len(@) + 1, MaxNotifications))]

\* the queued updates applied in order to the state
RECURSIVE applyAll(_, _)
applyAll(state, updates) ==
    IF updates = <<>> THEN state
    ELSE LET update == Head(updates)
             next == IF update.kind = "assignment"
                     THEN [state EXCEPT !.assignment = Append(@, update.role)]
                     ELSE addNotificationUpdate(state, update.notification)
         IN applyAll(next, Tail(updates))

\* useState: no assignment, no notification
InitProvider ==
    /\ fn = "SharedStateProvider"
    /\ pc = "rendered"
    /\ input = JSNull
    /\ Idle /\ NoForm
    /\ ret = <<>> /\ ret2 = <<>> /\ thrown = ""
    /\ NoComponent
    /\ NoDelete
    /\ NoRateLimit
    /\ events = <<>>
    /\ subs = <<>>
    /\ iter = <<>>
    /\ delivered = <<>>
    /\ sharedState = [assignment |-> <<>>, notifications |-> <<>>]
    /\ queue = <<>>
    /\ published = <<>>
    /\ added = 0

\* assignEmployeeToRole(role), with the addNotification it calls
AssignEmployeeToRole ==
    /\ added < MaxAdded
    /\ \E role \in {"Admin", "Supervisor"} :
          /\ queue' = queue \o <<[kind |-> "assignment", role |-> role,
                                  notification |-> [id |-> 0]],
                                 [kind |-> "notification", role |-> "",
                                  notification |-> [id |-> added + 1]]>>
          /\ published' = <<[event |-> "assignmentUpdated",
                             assignment |-> Append(sharedState.assignment, role)]>>
    /\ added' = added + 1
    /\ UNCHANGED <<callVars, workCodes, formData, pageConfig, uiVars, delVars>>
    /\ UNCHANGED <<requestTimestamps, now, rateLimit, calls>>
    /\ UNCHANGED <<events, subs, iter, delivered, sharedState>>

\* the other callers of addNotification: handleSelectRole after selectRole,
\* handleThemeChange after updateSharedState, and the Roles module's
\* callback of the userSelected event that selectUser publishes
AddNotification ==
    /\ added < MaxAdded
    /\ queue' = Append(queue, [kind |-> "notification", role |-> "",
                               notification |-> [id |-> added + 1]])
    /\ \E event \in {"roleSelected", "stateChanged", "userSelected"} :
          published' = <<[event |-> event, assignment |-> <<>>]>>
    /\ added' = added + 1
    /\ UNCHANGED <<callVars, workCodes, formData, pageConfig, uiVars, delVars>>
    /\ UNCHANGED <<requestTimestamps, now, rateLimit, calls>>
    /\ UNCHANGED <<events, subs, iter, delivered, sharedState>>

\* React renders the provider with the queued updates applied
Render ==
    /\ queue # <<>>
    /\ sharedState' = applyAll(sharedState, queue)
    /\ queue' = <<>>
    /\ published' = <<>>
    /\ UNCHANGED <<callVars, workCodes, formData, pageConfig, uiVars, delVars>>
    /\ UNCHANGED <<requestTimestamps, now, rateLimit, calls>>
    /\ UNCHANGED <<events, subs, iter, delivered, added>>

NextProvider ==
    \/ AssignEmployeeToRole
    \/ AddNotification
    \/ Render

SpecProvider == InitProvider /\ [][NextProvider]_vars

----------------------------------------------------------------------------
(* Properties.                                                             *)

Returned(f) == fn = f /\ pc # "call"

\* needle occurs in hay: hay = pre \o needle \o post
IsSubstring(needle, hay) ==
    \E pre \in 0..Len(hay) :
        /\ pre + Len(needle) <= Len(hay)
        /\ \A i \in 1..Len(needle) : hay[pre + i] = needle[i]

LabelTable == <<Inactive, Active, Pending, Archived>>

DisplayLabel(v) ==
    IF v.t = "number" /\ v.d = 1 /\ v.n \in 0..3 THEN LabelTable[v.n + 1] ELSE Unknown

HasValue(r, f) == f \in DOMAIN r /\ r[f].t \notin {"null", "undefined"}

StringForm(r, f) == IF f = "status" THEN DisplayLabel(r[f]) ELSE JSToString(r[f])

\* the query as compared: lower-cased and sanitized
ComparedQuery == sanitizeInput(JSString(toLowerCase(input.s)))

ValuedMatch(r, f) ==
    HasValue(r, f) /\ IsSubstring(ComparedQuery, toLowerCase(StringForm(r, f)))

RecordMatches(r) == \E k \in 1..Len(visibleFields) : ValuedMatch(r, visibleFields[k])

NonEmptyQuery == trim(input.s) # <<>>

RECURSIVE IsSubsequence(_, _)
IsSubsequence(a, b) ==
    IF a = <<>> THEN TRUE
    ELSE IF b = <<>> THEN FALSE
    ELSE IF Head(a) = Head(b) THEN IsSubsequence(Tail(a), Tail(b))
    ELSE IsSubsequence(a, Tail(b))

\* C1: the result of sanitizeInput holds no '<' and no '>' and has at most
\* 1000 characters, for every input.
C1_SanitizedSafe ==
    Returned("sanitizeInput") =>
        LET out == Unpack(ret)
        IN /\ \A i \in 1..Len(out) : out[i] \notin {"<", ">"}
           /\ Len(out) <= 1000

\* an input longer than 1000 characters that holds an angle bracket was cut
C1_Witness ==
    /\ fn = "sanitizeInput" /\ pc = "done"
    /\ input.t = "string" /\ Len(Unpack(input.s)) > 1000
    /\ "<" \in Range(Unpack(input.s))
    /\ Len(Unpack(ret)) = 1000

\* C2: sanitizeInput is idempotent: sanitizing a sanitized string changes
\* nothing, also for strings longer than 1000 characters with whitespace
\* around the 1000th character.
C2_Idempotent ==
    (fn = "sanitizeInput" /\ pc = "again") => Unpack(ret2) = Unpack(ret)

\* C3: the result of sanitizeInput neither begins nor ends with a whitespace
\* character, also when the input is truncated.
C3_Trimmed ==
    Returned("sanitizeInput") =>
        LET out == Unpack(ret)
        IN \/ out = <<>>
           \/ out[1] \notin WhiteSpace /\ out[Len(out)] \notin WhiteSpace

\* C4: validateWorkCodeInput is false for a value longer than maxLength and
\* otherwise true exactly when every character is alphanumeric, a hyphen, an
\* underscore or a space (a tab or a newline is rejected).
C4_WellFormed ==
    (Returned("validateWorkCodeInput") /\ thrown = "") =>
        ret = (/\ Len(input.s) <= maxLength
               /\ \A i \in 1..Len(input.s) :
                     input.s[i] \in Range(LowerLetters) \cup Range(UpperLetters)
                                      \cup Range(Digits) \cup {"-", "_", " "})

\* C5: validateStatus is true exactly for the integers 0, 1, 2, 3; it is
\* false for 4, -1, 1.5 and the string "1".
C5_ValidStatus ==
    Returned("validateStatus") =>
        ret = (input.t = "number" /\ input.d = 1 /\ input.n \in {0, 1, 2, 3})

\* the non-integer 1.5 was rejected
C5_Witness ==
    /\ fn = "validateStatus" /\ pc = "done"
    /\ input = JSNumber(3, 2)
    /\ ret = FALSE

\* C6: for a query that is non-empty after trimming, filterWorkCodes returns
\* exactly the records with a visible field whose value, lower-cased in its
\* string form, contains the sanitized lower-cased query; status is compared
\* through its display label, never through its number.
C6_FilterBySubstring ==
    (Returned("filterWorkCodes") /\ NonEmptyQuery) =>
        ret = SelectSeq(workCodes, RecordMatches)

\* of two records the query "ina" kept the one whose status label is Inactive
C6_Witness ==
    /\ fn = "filterWorkCodes" /\ pc = "done"
    /\ input.s = <<"i", "n", "a">>
    /\ visibleFields = <<"status">>
    /\ Len(workCodes) = 2
    /\ workCodes[1].status = JSNumber(1, 1)
    /\ workCodes[2].status = JSNumber(0, 1)
    /\ ret = <<workCodes[2]>>

ScenarioRecords ==
    << WorkCodeRecord(JSNumber(1, 1), JSString(<<"A", "B", "1">>), JSNumber(1, 1)),
       WorkCodeRecord(JSNumber(2, 1), JSString(<<"X", "Y", "9">>), JSNumber(0, 1)) >>

Scenario ==
    /\ fn = "filterWorkCodes" /\ pc = "done"
    /\ workCodes = ScenarioRecords
    /\ input.s = <<"a", "c", "t", "i", "v", "e">>
    /\ visibleFields = <<"short_work_code", "status">>

\* C7 as stated: in the scenario (records id 1 "AB1" status 1 and id 2 "XY9"
\* status 0, query "active", visible fields short_work_code and status) only
\* the record with id 1 is returned.
C7_OnlyActiveRecord ==
    Scenario => ret = <<ScenarioRecords[1]>>

\* C7 as amended: in the scenario both records are returned, id 1 then id 2:
\* the label "Inactive" of status 0 contains "active" too.
C7_BothRecordsReturned ==
    Scenario => ret = ScenarioRecords

\* the scenario has been filtered
C7_Witness == Scenario /\ Len(ret) = 2

\* C8: for an empty or whitespace-only query, filterWorkCodes returns the
\* input list unchanged, for any list and any non-empty list of visible fields.
C8_EmptyQueryIdentity ==
    (Returned("filterWorkCodes") /\ ~NonEmptyQuery /\ visibleFields # <<>>) =>
        ret = workCodes

\* a whitespace-only query returned a list that holds a record without any
\* visible value
C8_Witness ==
    /\ fn = "filterWorkCodes" /\ pc = "done"
    /\ input.s = <<" ", " ">>
    /\ visibleFields = <<"short_work_code">>
    /\ Len(workCodes) = 2
    /\ ~HasValue(workCodes[1], "short_work_code")
    /\ ret = workCodes

\* C9: the result of filterWorkCodes is a subsequence of the input list.
C9_Subsequence ==
    Returned("filterWorkCodes") => IsSubsequence(ret, workCodes)

\* a non-empty query dropped the first of two records and kept the second
C9_Witness ==
    /\ fn = "filterWorkCodes" /\ pc = "done"
    /\ NonEmptyQuery
    /\ Len(workCodes) = 2
    /\ workCodes[1] # workCodes[2]
    /\ ret = <<workCodes[2]>>

\* C10: for a non-empty query, a null or absent field never makes a record
\* match: every returned record has a visible field that holds a value
\* matching the query, so a record without any visible value is not returned.
C10_NullNeverMatches ==
    (Returned("filterWorkCodes") /\ NonEmptyQuery) =>
        /\ \A i \in 1..Len(ret) :
              \E k \in 1..Len(visibleFields) : ValuedMatch(ret[i], visibleFields[k])
        /\ \A i \in 1..Len(workCodes) :
              (\A k \in 1..Len(visibleFields) : ~HasValue(workCodes[i], visibleFields[k]))
                  => workCodes[i] \notin Range(ret)

\* the query "u" left out a record whose visible fields are null and absent
\* and returned the other record
C10_Witness ==
    /\ fn = "filterWorkCodes" /\ pc = "done"
    /\ input.s = <<"u">>
    /\ visibleFields = <<"status">>
    /\ Len(workCodes) = 2
    /\ workCodes[1].status = JSNull
    /\ workCodes[2].status = JSNumber(7, 1)
    /\ ret = <<workCodes[2]>>

----------------------------------------------------------------------------
(* Properties of the record validation.                                    *)

\* a value that is no value: the empty string, null, undefined
Empty(v) == v.t \in {"null", "undefined"} \/ (v.t = "string" /\ v.s = <<>>)

\* what validateRequiredFields takes for missing: an empty value, or the number 0
TakenForMissing(v) == Empty(v) \/ (v.t = "number" /\ v.n = 0)

\* the entries of the configuration the validation looks at, by position
Checked(data) ==
    {i \in 1..Len(pageConfig) :
        /\ pageConfig[i].required
        /\ pageConfig[i].visible
        /\ TakenForMissing(data[pageConfig[i].key])}

First(S) == CHOOSE i \in S : \A j \in S : i <= j

C12_RequiredNonEmpty ==
    Returned("validateRequiredFields") =>
        LET data == UnpackData(formData)
            emptyRequired ==
                {i \in 1..Len(pageConfig) :
                    pageConfig[i].required /\ Empty(data[pageConfig[i].key])}
        IN ret.isValid = (emptyRequired = {})

\* a check of validateWorkCodeData that fails: a required code missing, a
\* text field without length, too long or with a character outside the
\* pattern, a status that is no integer of 0..3
TextFails(v, max) ==
    \/ v.t \in {"null", "undefined"}
    \/ v.t = "string" /\ Len(v.s) > max
    \/ v.t = "string" /\ \E i \in 1..Len(v.s) : v.s[i] \notin PatternChars

SomeCheckFails(data) ==
    \/ TakenForMissing(data.short_work_code)
    \/ TakenForMissing(data.long_work_code)
    \/ TextFails(data.prefix, 10)
    \/ TextFails(data.suffix, 10)
    \/ TextFails(data.short_work_code, 10)
    \/ TextFails(data.long_work_code, 50)
    \/ ~(data.status.t = "number" /\ data.status.d = 1 /\ data.status.n \in 0..3)

C18_NeverThrows ==
    ( /\ pc # "call"
      /\ fn \in {"sanitizeInput", "validateWorkCodeInput", "validateStatus",
                 "validateRequiredFields", "filterWorkCodes"} ) =>
        /\ thrown = ""
        /\ (fn = "sanitizeInput" /\ Empty(input)) => ret = <<>>

----------------------------------------------------------------------------
(* Properties of the submission of a record.                               *)

\* the characters of a well-formed text field
AllowedChars ==
    Range(LowerLetters) \cup Range(UpperLetters) \cup Range(Digits) \cup {"-", "_", " "}

WellFormedWithin(v, max) ==
    /\ v.t = "string"
    /\ Len(v.s) <= max
    /\ \A i \in 1..Len(v.s) : v.s[i] \in AllowedChars

StatusInRange(v) == v.t = "number" /\ v.d = 1 /\ v.n \in 0..3

AnyCheckFails(data) ==
    \/ ~WellFormedWithin(data.prefix, 10)
    \/ ~WellFormedWithin(data.suffix, 10)
    \/ ~WellFormedWithin(data.short_work_code, 10)
    \/ ~WellFormedWithin(data.long_work_code, 50)
    \/ ~StatusInRange(data.status)

\* C13: a record submitted with a failing check (prefix, suffix or short
\* code not well-formed within 10 characters, long code not well-formed
\* within 50, status outside 0..3) is never sent: every POST or PUT carries
\* a record that passes them all.
C13_FailedCheckSendsNothing ==
    \A i \in 1..Len(sent) : ~AnyCheckFails(UnpackData(sent[i].data))

\* C14: the body of every POST or PUT sent has a non-empty short_work_code
\* and a non-empty long_work_code.
C14_RequiredInBody ==
    \A i \in 1..Len(sent) :
        /\ sent[i].body.short_work_code # JSString(<<>>)
        /\ sent[i].body.long_work_code # JSString(<<>>)

\* the number of characters of a packed string
RECURSIVE RunsLen(_)
RunsLen(runs) == IF runs = <<>> THEN 0 ELSE runs[1].k + RunsLen(Tail(runs))

TextLimit(field) ==
    CASE field = "long_work_code" -> 50
      [] field = "description" -> 1000
      [] OTHER -> 10

\* C15: in the body of every POST or PUT sent no text field contains an
\* angle bracket, the description has at most 1000 characters, prefix,
\* suffix and short_work_code at most 10 and long_work_code at most 50.
C15_BodyWithinLimits ==
    \A i \in 1..Len(sent) :
        \A field \in TextFields :
            LET value == sent[i].body[field]
            IN /\ value.t = "string"
               /\ RunsLen(value.s) <= TextLimit(field)
               /\ \A r \in 1..Len(value.s) : value.s[r].c \notin {"<", ">"}

\* a record whose description has over 1000 characters and an angle
\* bracket was sent
C15_Witness ==
    \E i \in 1..Len(sent) :
        LET description == sent[i].data.description.s
        IN /\ RunsLen(description) > 1000
           /\ \E r \in 1..Len(description) : description[r].c = "<"

\* the fields a message names
NamedFields(message) ==
    {DefaultFields[i].key : i \in
        {j \in 1..Len(DefaultFields) :
            message = DefaultFields[j].label \o " is required"}}
    \cup (IF message = "Failed to save work code: Invalid prefix format or length"
          THEN {"prefix"} ELSE {})
    \cup (IF message = "Failed to save work code: Invalid suffix format or length"
          THEN {"suffix"} ELSE {})
    \cup (IF message = "Failed to save work code: Invalid short work code format or length"
          THEN {"short_work_code"} ELSE {})
    \cup (IF message = "Failed to save work code: Invalid long work code format or length"
          THEN {"long_work_code"} ELSE {})
    \cup (IF message = "Failed to save work code: Invalid status value"
          THEN {"status"} ELSE {})

\* the field does not pass the submission's checks
Offends(field, data) ==
    \/ TakenForMissing(data[field])
    \/ field \in TextFields \ {"description"} /\ TextFails(data[field], TextLimit(field))
    \/ field = "status" /\ ~StatusInRange(data.status)

\* C16: a submission stopped by a failed check shows a message that names
\* an offending field.
C16_MessageNamesField ==
    outcome \in {"missing", "rejected"} =>
        /\ alerts # <<>>
        /\ \E field \in NamedFields(alerts[1]) : Offends(field, UnpackData(formData))

C20_FlagsCleared ==
    /\ isLoading ~> ~isLoading
    /\ isSubmitting ~> ~isSubmitting

\* the calls whose HTTP request is in flight
InFlight(c) == {slot \in {"load", "save", "delete"} : c[slot].phase = "waiting"}

\* the request a step sends: a submission or a confirmed delete that passed
\* the client's checks
Started(o) ==
    IF o = "sent" THEN {"save"} ELSE IF o = "delete sent" THEN {"delete"} ELSE {}

\* the call a step ends in failure, or refuses to make
Ended(o) ==
    IF o = "load failed" THEN {"load"}
    ELSE IF o \in {"save failed", "rejected", "missing"} THEN {"save"}
    ELSE IF o \in {"delete failed", "delete rejected"} THEN {"delete"}
    ELSE {}

\* C21: there is no retry.  A step puts a request in flight only when it is
\* the user's submit or confirmed delete, and then exactly one; getAll is
\* sent by the mount alone; a step that ends a call, fails a check or does
\* anything else sends nothing: the logs of requests stay as they were and
\* no call goes back to waiting.
C21_NoRetry ==
    [][/\ InFlight(call') \subseteq InFlight(call) \cup Started(outcome')
       /\ Len(sent') + Len(deleted') =
              Len(sent) + Len(deleted) + Cardinality(Started(outcome'))
       /\ Started(outcome') = {} => sent' = sent /\ deleted' = deleted
       /\ InFlight(call') \cap Ended(outcome') = {}]_vars

\* a delete request failed and nothing is in flight: the one DELETE sent is
\* all that was sent
C21_Witness ==
    /\ outcome = "delete failed"
    /\ InFlight(call) = {}
    /\ Len(deleted) = 1
    /\ sent = <<>>

\* the outcomes of a create, update or delete the client call failed
FailedCalls == {"rejected", "save failed", "delete rejected", "delete failed"}

\* the error state holds the message the alert shows after the prefix
ErrorStored(e, shown) ==
    /\ e # ""
    /\ \E prefix \in {"Failed to save work code: ", "Failed to delete work code: ", ""} :
          shown = <<prefix \o e>>

PositiveInteger(v) == v.t = "number" /\ v.n % v.d = 0 /\ v.n > 0

\* C25: getById, update and delete called with an identifier that is not a
\* positive integer throw 'Invalid ID' and send no request; handleDelete
\* with no identifier pending sends no request and changes nothing of the
\* component's state.
C25_InvalidIdSendsNothing ==
    /\ [](fn \in {"getById", "update", "delete"} /\ pc # "call"
                /\ ~PositiveInteger(input)
            => thrown = "Invalid ID" /\ sent = <<>> /\ deleted = <<>>)
    /\ [][fn = "handleDelete" /\ Falsy(deletingId)
            => UNCHANGED <<workCodes, formData, editingCode, isDialogOpen,
                           isSubmitting, isLoading, error, call, sent,
                           deleteDialogOpen, deletingId, deleted>>]_vars

\* update was called with the identifier 3/2 and a record that passes every
\* check
C25_Witness ==
    /\ fn = "update"
    /\ pc = "done"
    /\ input = JSNumber(3, 2)
    /\ validateWorkCodeData(UnpackData(formData)) = ""
    /\ thrown = "Invalid ID"
    /\ sent = <<>>

\* C26: the message handleResponse throws for a response that is not ok is
\* the same for two responses of the same status, whatever their bodies.
C26_MessageFromStatusOnly ==
    Returned("handleResponse") /\ ~ResponseOk(input.status) => thrown = ret2

\* two responses of status 500 with different bodies gave the same message
C26_Witness ==
    /\ Returned("handleResponse")
    /\ input.status = 500
    /\ input.bodies[1] # input.bodies[2]
    /\ thrown = "Server error. Please try again later."
    /\ ret2 = thrown

\* the calls of checkRateLimit that returned true
AcceptedCalls == {i \in 1..Len(calls) : calls[i].ok}

\* C22: with a clock that never goes back and fixed parameters, every
\* interval shorter than windowMs holds at most maxRequests calls of
\* checkRateLimit that returned true; the stored list never holds more than
\* maxRequests timestamps; getAll has sent one GET per accepted call and
\* none for a rejected one, which fails with 'Too many requests. Please wait
\* a moment.'.
C22_WindowHoldsAtMostMax ==
    /\ \A i \in AcceptedCalls :
          Cardinality({j \in AcceptedCalls :
                          /\ calls[i].at <= calls[j].at
                          /\ calls[j].at - calls[i].at < rateLimit.windowMs})
              <= rateLimit.maxRequests
    /\ Len(requestTimestamps) <= rateLimit.maxRequests
    /\ Len(sent) = Cardinality({i \in AcceptedCalls : calls[i].by = "getAll"})
    /\ calls # <<>> /\ calls[Len(calls)].by = "getAll" /\ ~calls[Len(calls)].ok
          => thrown = TooManyRequests

\* the eleventh getAll within a minute was refused and sent nothing
C22_Witness ==
    /\ Len(calls) = DefaultMaxRequests + 1
    /\ ~calls[Len(calls)].ok
    /\ calls[Len(calls)].at < DefaultWindowMs
    /\ thrown = TooManyRequests
    /\ Len(sent) = DefaultMaxRequests

\* C23: a rejected call records no timestamp and so never extends the
\* blocking: a call is rejected only while maxRequests accepted calls lie
\* less than windowMs before it; once windowMs has passed since the oldest
\* of them, the call is accepted, however many calls were rejected in
\* between.
C23_RejectedOnlyWhileFull ==
    /\ \A n \in 1..Len(calls) :
          ~calls[n].ok =>
              Cardinality({j \in AcceptedCalls :
                              j < n /\ calls[n].at - calls[j].at < rateLimit.windowMs})
                  >= rateLimit.maxRequests
    /\ \A i \in 1..Len(requestTimestamps) :
          \E j \in AcceptedCalls : calls[j].at = requestTimestamps[i]
    /\ Len(requestTimestamps) <= Cardinality(AcceptedCalls)

\* with one request per two milliseconds: a call accepted, two calls
\* rejected, and a call accepted exactly two milliseconds after the first
C23_Witness ==
    /\ rateLimit.maxRequests = 1
    /\ Len(calls) = 4
    /\ calls[1].ok /\ ~calls[2].ok /\ ~calls[3].ok /\ calls[4].ok
    /\ calls[4].at - calls[1].at = rateLimit.windowMs
    /\ requestTimestamps = <<calls[4].at>>

\* the callbacks of the subscriptions of an event whose unsubscribe function
\* has not been called, in subscription order
RECURSIVE LiveCallbacks(_, _)
LiveCallbacks(event, k) ==
    IF k = 0 THEN <<>>
    ELSE IF subs[k].event = event /\ subs[k].live
         THEN Append(LiveCallbacks(event, k - 1), subs[k].callback)
         ELSE LiveCallbacks(event, k - 1)

\* C27: an unsubscribe function removes exactly the subscription it was
\* returned for: the callbacks an event is delivered to are those of its
\* subscriptions whose own unsubscribe function has not been called, another
\* subscription of the same callback included.
C27_UnsubscribeRemovesOne ==
    \A event \in DOMAIN events : events[event] = LiveCallbacks(event, Len(subs))

Numbers(list) == [i \in 1..Len(list) |-> list[i].id]

\* C29: the notifications list holds at most 5 entries, newest first, and
\* once the queued updates are rendered they are the most recent
\* notifications added: all of them up to 5, the 5 last beyond.
C29_FiveNewestFirst ==
    /\ Len(sharedState.notifications) <= 5
    /\ \A i \in 1..(Len(sharedState.notifications) - 1) :
          sharedState.notifications[i].id > sharedState.notifications[i + 1].id
    /\ queue = <<>> =>
          Numbers(sharedState.notifications) =
              [i \in 1..(IF added < 5 THEN added ELSE 5) |-> added + 1 - i]

\* six notifications were added and rendered: the list holds 6, 5, 4, 3, 2
C29_Witness ==
    /\ added = 6
    /\ queue = <<>>
    /\ Numbers(sharedState.notifications) = <<6, 5, 4, 3, 2>>

\* C30: the assignment list an 'assignmentUpdated' event carries is the
\* assignment list of the state that results from the update of the same
\* assignEmployeeToRole call, that is of the state with the queued updates
\* applied.
C30_PublishedIsUpdatedList ==
    \A i \in 1..Len(published) :
        published[i].event = "assignmentUpdated"
            => published[i].assignment = applyAll(sharedState, queue).assignment

====
